---- MODULE Spec2Model ----
(***************************************************************************)
(* Retry / circuit-breaker subsystem of the Zep-Graphiti service           *)
(* (src/services/zep_graphiti/utils/enhanced_retry.py and its integration  *)
(* point retry_integration.py).                                            *)
(*                                                                         *)
(* Time is in whole seconds on a clock that moves in steps of TimeStep;    *)
(* delays are in milliseconds (fixed point for the source's floats).       *)
(* An error is the set of classifier keywords its lower-cased message      *)
(* contains, its type name and its retryable marker.                       *)
(***************************************************************************)
EXTENDS Integers, Sequences, FiniteSets, TLC

\* ------------------------------------------------------------- bounds
NumTasks == 2
NumProbers == 3
NumBatch == 1
MaxTerms == 2
MaxAttempt == 4
MaxRecords == 1100
MaxTime == 40
EmbedderMaxTime == 30
TimeStep == 10

Min(a, b) == IF a <= b THEN a ELSE b
Max(a, b) == IF a >= b THEN a ELSE b

RECURSIVE Pow(_, _)
Pow(b, e) == IF e = 0 THEN 1 ELSE b * Pow(b, e - 1)

\* ------------------------------------------------------ ErrorCategory
ErrorCategory ==
  {"network", "timeout", "rate_limit", "auth", "server_error",
   "client_error", "embedding", "database", "unknown"}

CircuitState == {"closed", "open", "half_open"}

\* ---------------------------------------------------------- RetryConfig
default_category_retries ==
  [c \in ErrorCategory |->
     CASE c = "network" -> 5
       [] c = "timeout" -> 3
       [] c = "rate_limit" -> 2
       [] c = "auth" -> 0
       [] c = "server_error" -> 3
       [] c = "client_error" -> 0
       [] c = "embedding" -> 4
       [] c = "database" -> 3
       [] OTHER -> 2]

\* milliseconds
default_category_delays ==
  [c \in ErrorCategory |->
     CASE c = "network" -> 1000
       [] c = "timeout" -> 2000
       [] c = "rate_limit" -> 5000
       [] c = "auth" -> 0
       [] c = "server_error" -> 2000
       [] c = "client_error" -> 0
       [] c = "embedding" -> 1500
       [] c = "database" -> 3000
       [] OTHER -> 2000]

\* RetryConfig(): the dataclass defaults after __post_init__.  The
\* multiplier 2.0 is mult_num / mult_den, jitter_range 0.25 is in percent.
RetryConfig ==
  [max_retries |-> 3, base_delay |-> 1000, max_delay |-> 60000,
   mult_num |-> 2, mult_den |-> 1, jitter |-> TRUE, jitter_range |-> 25,
   category_retries |-> default_category_retries,
   category_delays |-> default_category_delays]

\* An Optional argument: None, or a value.
None == {}
Some(x) == {x}

\* RetryConfig(...): the dataclass constructor and __post_init__, which
\* replaces a category map that is None by the default map.
NewRetryConfig(max_retries, base_delay, max_delay, multiplier, jitter, jitter_range, category_retries, category_delays) ==
  [max_retries |-> max_retries, base_delay |-> base_delay,
   max_delay |-> max_delay, mult_num |-> multiplier[1],
   mult_den |-> multiplier[2], jitter |-> jitter,
   jitter_range |-> jitter_range,
   category_retries |->
     IF category_retries = None THEN default_category_retries
     ELSE CHOOSE d \in category_retries : TRUE,
   category_delays |->
     IF category_delays = None THEN default_category_delays
     ELSE CHOOSE d \in category_delays : TRUE]

\* load_config_from_env: the six variables are read, the category maps are
\* not passed.
load_config_from_env(env) ==
  NewRetryConfig(env.RETRY_MAX_RETRIES, env.RETRY_BASE_DELAY,
                 env.RETRY_MAX_DELAY, env.RETRY_BACKOFF_MULTIPLIER,
                 env.RETRY_JITTER, env.RETRY_JITTER_RANGE, None, None)

\* Environments: base delay 1 s or 5 s, cap 5 s or 60 s, multiplier 2, 1.5
\* or 0.5, jitter on or off, jitter range 25 % or 50 %.
Environments ==
  [RETRY_MAX_RETRIES : {3}, RETRY_BASE_DELAY : {1000, 5000},
   RETRY_MAX_DELAY : {5000, 60000},
   RETRY_BACKOFF_MULTIPLIER : {<<2, 1>>, <<3, 2>>, <<1, 2>>},
   RETRY_JITTER : BOOLEAN, RETRY_JITTER_RANGE : {25, 50}]

\* The category_delays a caller passes: an empty map, or a map for two
\* categories only.
DelayOverrides ==
  {<< >>, [c \in {"network", "rate_limit"} |->
             IF c = "network" THEN 1000 ELSE 5000]}

\* The policies built by load_config_from_env.
PoliciesFromEnv == {load_config_from_env(env) : env \in Environments}

\* The policies constructed with category_delays given.
PoliciesWithOverrides ==
  {NewRetryConfig(env.RETRY_MAX_RETRIES, env.RETRY_BASE_DELAY,
                  env.RETRY_MAX_DELAY, env.RETRY_BACKOFF_MULTIPLIER,
                  env.RETRY_JITTER, env.RETRY_JITTER_RANGE, None, Some(d)) :
     env \in Environments, d \in DelayOverrides}

\* The values random.random() is sampled at, in hundredths.
RandomDraws == {0, 99}

\* --------------------------------------------------- CircuitBreakerConfig
\* CircuitBreakerConfig(): the dataclass defaults.
CircuitBreakerConfig ==
  [failure_threshold |-> 5, timeout |-> 60, half_open_max_calls |-> 3]

\* The policy setup_lm_studio_circuit_breaker registers.
lm_studio_cb_config ==
  [failure_threshold |-> 3, timeout |-> 20, half_open_max_calls |-> 2]

BreakerNames == {"lm_studio_embedder"}

\* The classifier keywords the name of a breaker puts into its messages.
NameTerms(name) == IF name = "neo4j_database" THEN {"neo4j", "database"} ELSE {}

\* ------------------------------------------------------------- errors
NoError == [terms |-> {}, type |-> "none", retryable |-> TRUE]

\* What an operation raises: "connection refused", "401 Unauthorized",
\* "400 bad request".
OpErrors ==
  {[terms |-> {"connection"}, type |-> "exception", retryable |-> TRUE],
   [terms |-> {"401", "unauthorized"}, type |-> "exception", retryable |-> TRUE],
   [terms |-> {"400", "bad request"}, type |-> "exception", retryable |-> TRUE]}

\* RetryableError("Circuit breaker '<name>' is OPEN", UNKNOWN, retryable=False)
\* and the HALF_OPEN variant: the same keywords, type and marker.
CircuitOpenError(name) ==
  [terms |-> NameTerms(name), type |-> "retryableerror", retryable |-> FALSE]

\* asyncio.CancelledError(), thrown into a call at the await it is suspended
\* in when its caller cancels it; its message is empty.
CancelledError == [terms |-> {}, type |-> "cancellederror", retryable |-> TRUE]

\* "except Exception" matching every exception, cancellation included.
IsException_matching_all(e) == TRUE

\* Whether "except Exception" matches e: CancelledError derives from
\* BaseException, every other error here from Exception.
IsException(e) == e.type # "cancellederror"

\* What the operation returns (retry_integration's test operation).
OpValues == {"success"}

\* ------------------------------------------------------ categorize_error
Hit(e, group) == e.terms \cap group # {}

\* The keyword groups of categorize_error in the order of its tests, and
\* the terms of each.
CategoryOrder ==
  <<"network", "timeout", "rate_limit", "auth", "server_error",
    "client_error", "embedding", "database">>

Keywords(c) ==
  CASE c = "network" -> {"connection", "network", "dns", "resolve"}
    [] c = "timeout" -> {"timeout", "timed out", "read timeout"}
    [] c = "rate_limit" -> {"rate limit", "too many requests", "429"}
    [] c = "auth" -> {"unauthorized", "authentication", "401", "403"}
    [] c = "server_error" ->
         {"server error", "internal server", "502", "503", "504"}
    [] c = "client_error" -> {"bad request", "not found", "400", "404"}
    [] c = "embedding" -> {"embedding", "model", "openai"}
    [] c = "database" -> {"neo4j", "database", "bolt", "cypher"}
    [] OTHER -> {}

AllKeywords == UNION {Keywords(CategoryOrder[i]) : i \in DOMAIN CategoryOrder}

\* The sets of at most n keywords a message can contain; a message that
\* contains "read timeout" contains "timeout".
RECURSIVE TermSets(_)
TermSets(n) ==
  IF n = 0 THEN {{}}
  ELSE LET S == TermSets(n - 1)
       IN {s \in S \cup {t \cup {k} : t \in S, k \in AllKeywords} :
             "read timeout" \in s => "timeout" \in s}

\* The type names that matter to the classifier: one without and two with
\* the name of an HTTP client library in it.
ErrorTypes == {"exception", "httpx", "aiohttp"}

\* Errors of every type with at most MaxTerms keywords in the message.
ErrorSamples ==
  {[terms |-> s, type |-> ty, retryable |-> TRUE] :
     s \in TermSets(MaxTerms), ty \in ErrorTypes}

\* categorize_error testing the timeout group before the network group.
categorize_error_timeout_first(e) ==
  IF Hit(e, {"timeout", "timed out", "read timeout"}) THEN "timeout"
  ELSE IF Hit(e, {"connection", "network", "dns", "resolve"}) THEN "network"
  ELSE IF Hit(e, {"rate limit", "too many requests", "429"}) THEN "rate_limit"
  ELSE IF Hit(e, {"unauthorized", "authentication", "401", "403"}) THEN "auth"
  ELSE IF Hit(e, {"server error", "internal server", "502", "503", "504"})
    THEN "server_error"
  ELSE IF Hit(e, {"bad request", "not found", "400", "404"}) THEN "client_error"
  ELSE IF Hit(e, {"embedding", "model", "openai"}) THEN "embedding"
  ELSE IF Hit(e, {"neo4j", "database", "bolt", "cypher"}) THEN "database"
  ELSE IF e.type \in {"httpx", "aiohttp"} THEN "network"
  ELSE "unknown"

categorize_error(e) ==
  IF Hit(e, {"connection", "network", "dns", "resolve"}) THEN "network"
  ELSE IF Hit(e, {"timeout", "timed out", "read timeout"}) THEN "timeout"
  ELSE IF Hit(e, {"rate limit", "too many requests", "429"}) THEN "rate_limit"
  ELSE IF Hit(e, {"unauthorized", "authentication", "401", "403"}) THEN "auth"
  ELSE IF Hit(e, {"server error", "internal server", "502", "503", "504"})
    THEN "server_error"
  ELSE IF Hit(e, {"bad request", "not found", "400", "404"}) THEN "client_error"
  ELSE IF Hit(e, {"embedding", "model", "openai"}) THEN "embedding"
  ELSE IF Hit(e, {"neo4j", "database", "bolt", "cypher"}) THEN "database"
  ELSE IF e.type \in {"httpx", "aiohttp"} THEN "network"
  ELSE "unknown"

\* ------------------------------------------------------- calculate_delay
\* calculate_delay with the backoff shrinking: the base divided by the
\* multiplier's power.
calculate_delay_shrinking(attempt, config, category, r) ==
  LET base == IF DOMAIN config.category_delays # {}
                THEN IF category \in DOMAIN config.category_delays
                       THEN config.category_delays[category]
                       ELSE config.base_delay
                ELSE config.base_delay
      raw == Min((base * Pow(config.mult_den, attempt))
                    \div Pow(config.mult_num, attempt),
                 config.max_delay)
      jit == (raw * config.jitter_range * (2 * r - 100)) \div 10000
  IN IF config.jitter /\ raw > 0 THEN Max(100, raw + jit) ELSE raw

\* calculate_delay with the policy's base_delay for every category.
calculate_delay_ignoring_category(attempt, config, category, r) ==
  LET raw == Min((config.base_delay * Pow(config.mult_num, attempt))
                    \div Pow(config.mult_den, attempt),
                 config.max_delay)
      jit == (raw * config.jitter_range * (2 * r - 100)) \div 10000
  IN IF config.jitter /\ raw > 0 THEN Max(100, raw + jit) ELSE raw

\* r is the value of random.random() in hundredths.
calculate_delay(attempt, config, category, r) ==
  LET base == IF DOMAIN config.category_delays # {}
                THEN IF category \in DOMAIN config.category_delays
                       THEN config.category_delays[category]
                       ELSE config.base_delay
                ELSE config.base_delay
      raw == Min((base * Pow(config.mult_num, attempt))
                    \div Pow(config.mult_den, attempt),
                 config.max_delay)
      jit == (raw * config.jitter_range * (2 * r - 100)) \div 10000
  IN IF config.jitter /\ raw > 0 THEN Max(100, raw + jit) ELSE raw

\* The budget read without the per-category overrides.
max_retries_ignoring_category(config, category) == config.max_retries

\* The retry budget of a category (retry_with_backoff, "Check if error is
\* retryable").
max_retries_for_category(config, category) ==
  IF DOMAIN config.category_retries # {}
    THEN IF category \in DOMAIN config.category_retries
           THEN config.category_retries[category]
           ELSE config.max_retries
    ELSE config.max_retries

\* --------------------------------------------------------- CircuitBreaker
\* CircuitBreaker.__init__
NewCircuitBreaker(config) ==
  [config |-> config, state |-> "closed", failure_count |-> 0,
   last_failure_time |-> 0, success_count |-> 0]

\* The admission rejecting until the timeout is exceeded, not just reached.
call_admit_strict(cb, t) ==
  IF cb.state = "open"
    THEN IF t - cb.last_failure_time <= cb.config.timeout
           THEN [admitted |-> FALSE, cb |-> cb]
           ELSE [admitted |-> TRUE,
                 cb |-> [cb EXCEPT !.state = "half_open", !.success_count = 0]]
  ELSE IF cb.state = "half_open"
    THEN IF cb.success_count >= cb.config.half_open_max_calls
           THEN [admitted |-> FALSE, cb |-> cb]
           ELSE [admitted |-> TRUE, cb |-> cb]
  ELSE [admitted |-> TRUE, cb |-> cb]

\* CircuitBreaker.call, the admission section under the lock: whether func
\* is invoked, and the breaker afterwards.
call_admit(cb, t) ==
  IF cb.state = "open"
    THEN IF t - cb.last_failure_time < cb.config.timeout
           THEN [admitted |-> FALSE, cb |-> cb]
           ELSE [admitted |-> TRUE,
                 cb |-> [cb EXCEPT !.state = "half_open", !.success_count = 0]]
  ELSE IF cb.state = "half_open"
    THEN IF cb.success_count >= cb.config.half_open_max_calls
           THEN [admitted |-> FALSE, cb |-> cb]
           ELSE [admitted |-> TRUE, cb |-> cb]
  ELSE [admitted |-> TRUE, cb |-> cb]

\* _on_success closing the breaker on the first successful probe.
on_success_eager(cb) ==
  IF cb.state = "half_open"
    THEN [cb EXCEPT !.success_count = @ + 1, !.state = "closed",
                    !.failure_count = 0]
  ELSE IF cb.state = "closed"
    THEN [cb EXCEPT !.failure_count = Max(0, @ - 1)]
  ELSE cb

\* _on_success closing the breaker on a success reported while it is OPEN.
on_success_closing_open(cb) ==
  IF cb.state = "half_open"
    THEN IF cb.success_count + 1 >= cb.config.half_open_max_calls
           THEN [cb EXCEPT !.success_count = @ + 1, !.state = "closed",
                           !.failure_count = 0]
           ELSE [cb EXCEPT !.success_count = @ + 1]
  ELSE IF cb.state = "closed"
    THEN [cb EXCEPT !.failure_count = Max(0, @ - 1)]
  ELSE [cb EXCEPT !.state = "closed", !.failure_count = 0]

\* _on_success taking one off failure_count whatever it is.
on_success_unclamped(cb) ==
  IF cb.state = "half_open"
    THEN IF cb.success_count + 1 >= cb.config.half_open_max_calls
           THEN [cb EXCEPT !.success_count = @ + 1, !.state = "closed",
                           !.failure_count = 0]
           ELSE [cb EXCEPT !.success_count = @ + 1]
  ELSE IF cb.state = "closed"
    THEN [cb EXCEPT !.failure_count = @ - 1]
  ELSE cb

\* CircuitBreaker._on_success
on_success(cb) ==
  IF cb.state = "half_open"
    THEN IF cb.success_count + 1 >= cb.config.half_open_max_calls
           THEN [cb EXCEPT !.success_count = @ + 1, !.state = "closed",
                           !.failure_count = 0]
           ELSE [cb EXCEPT !.success_count = @ + 1]
  ELSE IF cb.state = "closed"
    THEN [cb EXCEPT !.failure_count = Max(0, @ - 1)]
  ELSE cb

\* _on_failure opening only above the threshold.
on_failure_late(cb, t) ==
  LET c1 == [cb EXCEPT !.failure_count = @ + 1, !.last_failure_time = t]
  IN IF c1.state = "closed" /\ c1.failure_count > c1.config.failure_threshold
       THEN [c1 EXCEPT !.state = "open"]
     ELSE IF c1.state = "half_open"
       THEN [c1 EXCEPT !.state = "open"]
     ELSE c1

\* _on_failure reopening a HALF_OPEN breaker only before its first
\* successful probe.
on_failure_sparing_probes(cb, t) ==
  LET c1 == [cb EXCEPT !.failure_count = @ + 1, !.last_failure_time = t]
  IN IF c1.state = "closed" /\ c1.failure_count >= c1.config.failure_threshold
       THEN [c1 EXCEPT !.state = "open"]
     ELSE IF c1.state = "half_open" /\ c1.success_count = 0
       THEN [c1 EXCEPT !.state = "open"]
     ELSE c1

\* _on_failure counting the failures reported in one instant once.
on_failure_once_per_instant(cb, t) ==
  LET c1 == IF cb.failure_count > 0 /\ cb.last_failure_time = t
              THEN cb
              ELSE [cb EXCEPT !.failure_count = @ + 1,
                              !.last_failure_time = t]
  IN IF c1.state = "closed" /\ c1.failure_count >= c1.config.failure_threshold
       THEN [c1 EXCEPT !.state = "open"]
     ELSE IF c1.state = "half_open"
       THEN [c1 EXCEPT !.state = "open"]
     ELSE c1

\* CircuitBreaker._on_failure
on_failure(cb, t) ==
  LET c1 == [cb EXCEPT !.failure_count = @ + 1, !.last_failure_time = t]
  IN IF c1.state = "closed" /\ c1.failure_count >= c1.config.failure_threshold
       THEN [c1 EXCEPT !.state = "open"]
     ELSE IF c1.state = "half_open"
       THEN [c1 EXCEPT !.state = "open"]
     ELSE c1

\* get_or_create_circuit_breaker building a breaker at every call.
get_or_create_circuit_breaker_replacing(reg, name, config) ==
  [n \in DOMAIN reg \cup {name} |->
     IF n = name THEN NewCircuitBreaker(config) ELSE reg[n]]

\* get_or_create_circuit_breaker: the registry afterwards.
get_or_create_circuit_breaker(reg, name, config) ==
  IF name \in DOMAIN reg
    THEN reg
    ELSE [n \in DOMAIN reg \cup {name} |->
            IF n = name THEN NewCircuitBreaker(config) ELSE reg[n]]

\* ----------------------------------------------------------- RetryMetrics
ResponseWindowCap == 1000
ResponseWindowKeep == 500

\* RetryMetrics.__init__
NewRetryMetrics(t) ==
  [total_calls |-> 0, total_retries |-> 0, success_count |-> 0,
   failure_count |-> 0, category_stats |-> << >>, response_times |-> << >>,
   last_reset |-> t]

\* record_call never trimming the response times.
record_call_keeping_all(m, success, retries, response_time, category) ==
  LET old == IF category \in DOMAIN m.category_stats
               THEN m.category_stats[category]
               ELSE [calls |-> 0, failures |-> 0, retries |-> 0]
      new == [calls |-> old.calls + 1,
              failures |-> old.failures + (IF success THEN 0 ELSE 1),
              retries |-> old.retries + retries]
  IN [m EXCEPT
        !.total_calls = @ + 1,
        !.total_retries = @ + retries,
        !.success_count = @ + (IF success THEN 1 ELSE 0),
        !.failure_count = @ + (IF success THEN 0 ELSE 1),
        !.category_stats =
           [c \in DOMAIN m.category_stats \cup {category} |->
              IF c = category THEN new ELSE m.category_stats[c]],
        !.response_times = Append(@, response_time)]

\* record_call counting a failed call in the total only.
record_call_forgetting_failures(m, success, retries, response_time, category) ==
  LET old == IF category \in DOMAIN m.category_stats
               THEN m.category_stats[category]
               ELSE [calls |-> 0, failures |-> 0, retries |-> 0]
      new == [calls |-> old.calls + 1,
              failures |-> old.failures + (IF success THEN 0 ELSE 1),
              retries |-> old.retries + retries]
  IN [m EXCEPT
        !.total_calls = @ + 1,
        !.total_retries = @ + retries,
        !.success_count = @ + (IF success THEN 1 ELSE 0),
        !.category_stats =
           [c \in DOMAIN m.category_stats \cup {category} |->
              IF c = category THEN new ELSE m.category_stats[c]],
        !.response_times = Append(@, response_time)]

\* record_call losing the retries of the call.
record_call_dropping_retries(m, success, retries, response_time, category) ==
  LET old == IF category \in DOMAIN m.category_stats
               THEN m.category_stats[category]
               ELSE [calls |-> 0, failures |-> 0, retries |-> 0]
      new == [calls |-> old.calls + 1,
              failures |-> old.failures + (IF success THEN 0 ELSE 1),
              retries |-> old.retries]
  IN [m EXCEPT
        !.total_calls = @ + 1,
        !.success_count = @ + (IF success THEN 1 ELSE 0),
        !.failure_count = @ + (IF success THEN 0 ELSE 1),
        !.category_stats =
           [c \in DOMAIN m.category_stats \cup {category} |->
              IF c = category THEN new ELSE m.category_stats[c]],
        !.response_times = Append(@, response_time)]

\* RetryMetrics.record_call
record_call(m, success, retries, response_time, category) ==
  LET old == IF category \in DOMAIN m.category_stats
               THEN m.category_stats[category]
               ELSE [calls |-> 0, failures |-> 0, retries |-> 0]
      new == [calls |-> old.calls + 1,
              failures |-> old.failures + (IF success THEN 0 ELSE 1),
              retries |-> old.retries + retries]
      stats == [c \in DOMAIN m.category_stats \cup {category} |->
                  IF c = category THEN new ELSE m.category_stats[c]]
      times == Append(m.response_times, response_time)
  IN [m EXCEPT
        !.total_calls = @ + 1,
        !.total_retries = @ + retries,
        !.success_count = @ + (IF success THEN 1 ELSE 0),
        !.failure_count = @ + (IF success THEN 0 ELSE 1),
        !.category_stats = stats,
        !.response_times =
           IF Len(times) > ResponseWindowCap
             THEN SubSeq(times, Len(times) - ResponseWindowKeep + 1, Len(times))
             ELSE times]

\* ------------------------------------------------------------------ state
VARIABLES
  now,               \* time.time(), seconds
  circuit_breakers,  \* _circuit_breakers: name -> CircuitBreaker
  global_metrics,    \* _global_metrics
  tasks,             \* the retry_with_backoff calls, one per task
  workload,          \* what the callers do: breaker names, failures, the
                     \* last instant a call is made at, the horizon, and
                     \* whether pending sleeps are waited for beyond it
  history,           \* per breaker name: what has happened to it so far
  evaluation         \* a function of the module applied on its own: its
                     \* arguments and its result

vars ==
  <<now, circuit_breakers, global_metrics, tasks, workload, history,
    evaluation>>

Tasks == DOMAIN tasks

\* The frame of a retry_with_backoff call.  wake_at is the first instant of
\* the clock at which asyncio.sleep(delay) has returned.  invocations,
\* sleeps, uniform and op_error are history: the invocations of func, the
\* backoff sleeps started, whether every failure so far had the category of
\* the last one, and the last error func itself raised.
IdleTask ==
  [pc |-> "idle", cb_name |-> "None", attempt |-> 0,
   category |-> "unknown", last_error |-> NoError, start_time |-> 0,
   wake_at |-> 0, result |-> "None", raised |-> NoError,
   invocations |-> 0, sleeps |-> 0, uniform |-> TRUE, op_error |-> NoError]

\* The first instant of the clock not before t seconds plus ms milliseconds.
InstantAfter(t, ms) ==
  ((t * 1000 + ms + TimeStep * 1000 - 1) \div (TimeStep * 1000)) * TimeStep

\* The state a step of a call leaves behind.
World(tk, cbs, m) == [task |-> tk, cbs |-> cbs, m |-> m]

\* func() is entered and suspends inside the operation.
Invoke(tk) == [tk EXCEPT !.pc = "running", !.invocations = @ + 1]

\* The RetryableError raised after the loop.
TerminalError(tk) ==
  [terms |-> tk.last_error.terms, type |-> "retryableerror",
   retryable |-> FALSE, category |-> tk.category,
   original_error |-> tk.last_error]

\* retry_with_backoff after the loop ("All retries exhausted").
Exhausted(config, tk, cbs, m) ==
  World([tk EXCEPT !.pc = "raised", !.raised = TerminalError(tk)],
        cbs,
        record_call(m, FALSE, config.max_retries, now - tk.start_time,
                    tk.category))

\* retry_with_backoff, one iteration of the loop from its head up to the
\* next suspension: the breaker's admission, else the except branch.
RECURSIVE LoopBody(_, _, _, _, _)
RECURSIVE OnError(_, _, _, _, _, _)
RECURSIVE NextIteration(_, _, _, _, _)

LoopBody(config, tk, cbs, m, r) ==
  IF tk.cb_name # "None"
    THEN LET adm == call_admit(cbs[tk.cb_name], now)
             cbs1 == [cbs EXCEPT ![tk.cb_name] = adm.cb]
         IN IF adm.admitted
              THEN World(Invoke(tk), cbs1, m)
              ELSE OnError(config, tk, cbs1, m,
                           CircuitOpenError(tk.cb_name), r)
    ELSE World(Invoke(tk), cbs, m)

\* retry_with_backoff, the except branch.
OnError(config, tk, cbs, m, error, r) ==
  LET category == categorize_error(error)
      tk1 == [tk EXCEPT !.last_error = error, !.category = category,
                        !.uniform = @ /\ (tk.last_error = NoError
                                            \/ tk.category = category)]
      delay == calculate_delay(tk.attempt, config, category, r)
  IN IF tk.attempt >= max_retries_for_category(config, category)
       THEN Exhausted(config, tk1, cbs, m)
     ELSE IF delay > 0
       THEN World([tk1 EXCEPT !.pc = "sleeping",
                              !.wake_at = InstantAfter(now, delay),
                              !.sleeps = @ + 1],
                  cbs, m)
     ELSE NextIteration(config, tk1, cbs, m, r)

\* The loop trying again with the attempt index it had (a while True loop).
NextIteration_same_attempt(config, tk, cbs, m, r) ==
  LoopBody(config, tk, cbs, m, r)

\* The for statement: the next attempt index, or the end of the range.
NextIteration(config, tk, cbs, m, r) ==
  IF tk.attempt + 1 <= config.max_retries
    THEN LoopBody(config, [tk EXCEPT !.attempt = @ + 1], cbs, m, r)
    ELSE Exhausted(config, tk, cbs, m)

\* History of a breaker: streak is the number of failures reported to it
\* since the last success; probes is, while it is HALF_OPEN, the number of
\* calls it has admitted since it left OPEN (0 in the other states).
NoHistory == [n \in BreakerNames |-> [streak |-> 0, probes |-> 0]]

\* The history after task t's call has gone through the breaker's admission.
AfterArrival(before, w) ==
  LET n == w.task.cb_name
  IN IF n = "None" THEN history
     ELSE [history EXCEPT ![n].probes =
             IF w.cbs[n].state # "half_open" THEN 0
             ELSE IF w.task.pc # "running" THEN @
             ELSE IF before[n].state = "open" THEN 1
             ELSE @ + 1]

\* The history after a call's operation has ended.
AfterCompletion(tk, w, failed) ==
  LET n == tk.cb_name
  IN IF n = "None" THEN history
     ELSE [history EXCEPT
             ![n].streak = IF failed THEN @ + 1 ELSE 0,
             ![n].probes = IF w.cbs[n].state # "half_open" THEN 0 ELSE @]

Install(t, w) ==
  /\ tasks' = [tasks EXCEPT ![t] = w.task]
  /\ circuit_breakers' = w.cbs
  /\ global_metrics' = w.m

\* No function is applied on its own.
NoEvaluation == [fn |-> "None"]

\* "Temporary failure", the error of retry_integration's test operation.
TemporaryFailure == [terms |-> {}, type |-> "exception", retryable |-> TRUE]

\* Callers without a breaker, operations failing in every way.
PlainWorkload ==
  [names |-> {"None"}, errors |-> OpErrors, start_by |-> MaxTime,
   horizon |-> MaxTime, drain |-> FALSE]

\* Callers of the embedder, all through its breaker.
EmbedderWorkload ==
  [names |-> BreakerNames, errors |-> {TemporaryFailure},
   start_by |-> EmbedderMaxTime, horizon |-> EmbedderMaxTime,
   drain |-> FALSE]

\* Callers with and without a breaker, all calling at time 0 and watched
\* until their calls have ended.
BatchWorkload ==
  [names |-> BreakerNames \cup {"None"},
   errors |-> OpErrors, start_by |-> 0,
   horizon |-> TimeStep, drain |-> TRUE]

\* The module as imported: no breaker yet, fresh metrics.
Init ==
  /\ now = 0
  /\ circuit_breakers = << >>
  /\ global_metrics = NewRetryMetrics(0)
  /\ tasks = [t \in 1..NumTasks |-> IdleTask]
  /\ workload = PlainWorkload
  /\ history = NoHistory
  /\ evaluation = NoEvaluation

\* The service after its start-up has run setup_lm_studio_circuit_breaker,
\* serving concurrent embedding requests.
InitEmbedder ==
  /\ now = 0
  /\ circuit_breakers =
       get_or_create_circuit_breaker(<< >>, "lm_studio_embedder",
                                     lm_studio_cb_config)
  /\ global_metrics = NewRetryMetrics(0)
  /\ tasks = [t \in 1..NumProbers |-> IdleTask]
  /\ workload = EmbedderWorkload
  /\ history = NoHistory
  /\ evaluation = NoEvaluation

\* Time passes, up to the horizon of the run, and beyond it as long as a
\* sleep that is waited for has not returned.
Tick ==
  /\ \/ now + TimeStep <= workload.horizon
     \/ /\ workload.drain
        /\ \E t \in Tasks : tasks[t].pc = "sleeping" /\ tasks[t].wake_at > now
  /\ now' = now + TimeStep
  /\ UNCHANGED <<circuit_breakers, global_metrics, tasks, workload, history,
                 evaluation>>

\* setup_lm_studio_circuit_breaker
setup_lm_studio_circuit_breaker ==
  /\ circuit_breakers' =
       get_or_create_circuit_breaker(circuit_breakers, "lm_studio_embedder",
                                     lm_studio_cb_config)
  /\ UNCHANGED <<now, global_metrics, tasks, workload, history, evaluation>>

\* retry_with_backoff is called: up to the first suspension.  The calls are
\* interchangeable: they are numbered in the order in which they are made.
retry_with_backoff(t, name) ==
  /\ tasks[t].pc = "idle"
  /\ now <= workload.start_by
  /\ \A u \in Tasks : u < t => tasks[u].pc # "idle"
  /\ LET config == RetryConfig
         reg == IF name # "None"
                  THEN get_or_create_circuit_breaker(circuit_breakers, name,
                                                     CircuitBreakerConfig)
                  ELSE circuit_breakers
         tk == [IdleTask EXCEPT !.cb_name = name, !.start_time = now]
     IN \E r \in RandomDraws :
          LET w == IF 0 <= config.max_retries
                     THEN LoopBody(config, tk, reg, global_metrics, r)
                     ELSE Exhausted(config, tk, reg, global_metrics)
          IN Install(t, w) /\ history' = AfterArrival(reg, w)
  /\ UNCHANGED <<now, workload, evaluation>>

\* The operation returns value: CircuitBreaker.call after func(), then the
\* success path of retry_with_backoff.
OperationReturns(t, value) ==
  /\ tasks[t].pc = "running"
  /\ LET tk == tasks[t]
         cbs == IF tk.cb_name # "None"
                  THEN [circuit_breakers EXCEPT
                          ![tk.cb_name] = on_success(@)]
                  ELSE circuit_breakers
         w == World([tk EXCEPT !.pc = "returned", !.result = value],
                    cbs,
                    record_call(global_metrics, TRUE, tk.attempt,
                                now - tk.start_time, tk.category))
     IN Install(t, w) /\ history' = AfterCompletion(tk, w, FALSE)
  /\ UNCHANGED <<now, workload, evaluation>>

\* The operation raises error: CircuitBreaker.call's except branch, then
\* the except branch of retry_with_backoff.
OperationRaises(t, error) ==
  /\ tasks[t].pc = "running"
  /\ LET tk == tasks[t]
         cbs == IF tk.cb_name # "None"
                  THEN [circuit_breakers EXCEPT
                          ![tk.cb_name] = on_failure(@, now)]
                  ELSE circuit_breakers
     IN \E r \in RandomDraws :
          LET w == OnError(RetryConfig, [tk EXCEPT !.op_error = error], cbs,
                           global_metrics, error, r)
          IN Install(t, w) /\ history' = AfterCompletion(tk, w, TRUE)
  /\ UNCHANGED <<now, workload, evaluation>>

\* asyncio.sleep(delay) returns: the loop goes on.
SleepReturns(t) ==
  /\ tasks[t].pc = "sleeping"
  /\ now >= tasks[t].wake_at
  /\ \E r \in RandomDraws :
       LET w == NextIteration(RetryConfig, tasks[t], circuit_breakers,
                              global_metrics, r)
       IN Install(t, w) /\ history' = AfterArrival(circuit_breakers, w)
  /\ UNCHANGED <<now, workload, evaluation>>

\* The caller cancels the call.  Suspended in asyncio.sleep the call is
\* inside the except block, which no except clause guards; suspended in func
\* the exception passes CircuitBreaker.call and the try of the loop, whose
\* except clauses are tried against it.
Cancel(t) ==
  /\ tasks[t].pc \in {"running", "sleeping"}
  /\ IF tasks[t].pc = "running" /\ IsException(CancelledError)
       THEN OperationRaises(t, CancelledError)
       ELSE /\ tasks' = [tasks EXCEPT ![t].pc = "cancelled",
                                      ![t].raised = CancelledError]
            /\ UNCHANGED <<now, circuit_breakers, global_metrics, workload,
                           history, evaluation>>

Next ==
  \/ Tick
  \/ setup_lm_studio_circuit_breaker
  \/ \E t \in Tasks, name \in workload.names : retry_with_backoff(t, name)
  \/ \E t \in Tasks, value \in OpValues : OperationReturns(t, value)
  \/ \E t \in Tasks, error \in workload.errors : OperationRaises(t, error)
  \/ \E t \in Tasks : SleepReturns(t)

Spec == Init /\ [][Next]_vars

SpecEmbedder == InitEmbedder /\ [][Next]_vars

\* A batch of calls made at once on the module as imported.
InitBatch ==
  /\ now = 0
  /\ circuit_breakers = << >>
  /\ global_metrics = NewRetryMetrics(0)
  /\ tasks = [t \in 1..NumBatch |-> IdleTask]
  /\ workload = BatchWorkload
  /\ history = NoHistory
  /\ evaluation = NoEvaluation

\* Time passes, every sleep returns once its delay has passed (the event
\* loop), and every invocation of the operation ends, with a value or an
\* error.
Fairness ==
  /\ WF_vars(Tick)
  /\ \A t \in 1..NumBatch : WF_vars(SleepReturns(t))
  /\ \A t \in 1..NumBatch :
       WF_vars((\E value \in OpValues : OperationReturns(t, value))
               \/ (\E error \in workload.errors : OperationRaises(t, error)))

SpecBatch == InitBatch /\ [][Next]_vars /\ Fairness

\* ------------------------------------------- the classifier on its own
\* An error to classify, nothing classified yet.
InitClassify ==
  /\ now = 0
  /\ circuit_breakers = << >>
  /\ global_metrics = NewRetryMetrics(0)
  /\ tasks = << >>
  /\ workload = PlainWorkload
  /\ history = NoHistory
  /\ evaluation \in {[fn |-> "categorize_error", error |-> e,
                       result |-> "None"] : e \in ErrorSamples}

\* categorize_error(error) is called.
Classify ==
  /\ evaluation.fn = "categorize_error"
  /\ evaluation.result = "None"
  /\ evaluation' =
       [evaluation EXCEPT !.result = categorize_error(evaluation.error)]
  /\ UNCHANGED <<now, circuit_breakers, global_metrics, tasks, workload,
                 history>>

SpecClassify == InitClassify /\ [][Classify]_vars

\* ------------------------------------------ calculate_delay on its own
\* A policy and a category, no delay computed yet.
InitDelay ==
  /\ now = 0
  /\ circuit_breakers = << >>
  /\ global_metrics = NewRetryMetrics(0)
  /\ tasks = << >>
  /\ workload = PlainWorkload
  /\ history = NoHistory
  /\ evaluation \in
       {[fn |-> "calculate_delay", config |-> config, category |-> category,
         attempt |-> -1, r |-> 0, result |-> 0] :
          config \in PoliciesFromEnv \cup PoliciesWithOverrides,
          category \in ErrorCategory}

\* calculate_delay(attempt, config, category) is called for the next
\* attempt index, random.random() returning r.
NextDelay ==
  /\ evaluation.fn = "calculate_delay"
  /\ evaluation.attempt < MaxAttempt
  /\ \E r \in RandomDraws :
       evaluation' =
         [evaluation EXCEPT
            !.attempt = @ + 1, !.r = r,
            !.result = calculate_delay(evaluation.attempt + 1,
                                       evaluation.config,
                                       evaluation.category, r)]
  /\ UNCHANGED <<now, circuit_breakers, global_metrics, tasks, workload,
                 history>>

SpecDelay == InitDelay /\ [][NextDelay]_vars

\* Embedding requests on the module as imported: the breaker is created by
\* whoever asks for it first, the start-up or a call.
InitRegistry ==
  /\ now = 0
  /\ circuit_breakers = << >>
  /\ global_metrics = NewRetryMetrics(0)
  /\ tasks = [t \in 1..NumTasks |-> IdleTask]
  /\ workload = EmbedderWorkload
  /\ history = NoHistory
  /\ evaluation = NoEvaluation

SpecRegistry == InitRegistry /\ [][Next]_vars

\* ---------------------------------------------- record_call on its own
\* Fresh metrics, nothing recorded yet.
InitRecord ==
  /\ now = 0
  /\ circuit_breakers = << >>
  /\ global_metrics = NewRetryMetrics(0)
  /\ tasks = << >>
  /\ workload = PlainWorkload
  /\ history = NoHistory
  /\ evaluation = [fn |-> "record_call", metrics |-> NewRetryMetrics(0)]

\* record_call(True, 0, response_time, UNKNOWN) is called; the response
\* time of the k-th record is k, which tells the samples apart.
NextRecord ==
  /\ evaluation.fn = "record_call"
  /\ evaluation.metrics.total_calls < MaxRecords
  /\ evaluation' =
       [evaluation EXCEPT
          !.metrics = record_call(@, TRUE, 0, @.total_calls + 1, "unknown")]
  /\ UNCHANGED <<now, circuit_breakers, global_metrics, tasks, workload,
                 history>>

SpecRecord == InitRecord /\ [][NextRecord]_vars

\* ------------------------------------------ save_entity_node_enhanced
\* What create_entity raises when one of its own retry_with_backoff calls
\* gives up: RetryableError("Operation '<name>' failed after <n> retries:
\* <last_error>", category, retryable=False).  Its text holds the inner
\* operation's name and the text of the inner call's last error.
NestedTerminalError(operation_terms, last_error) ==
  [terms |-> operation_terms \cup last_error.terms,
   type |-> "retryableerror", retryable |-> FALSE]

\* The top-level calls of save_entity_node_enhanced: no breaker of their
\* own, create_entity failing when generate_name_embedding_for_<uuid> or
\* save_entity_node_<uuid> has given up.
NestedWorkload ==
  [names |-> {"None"},
   errors |-> {NestedTerminalError({"embedding"}, TemporaryFailure),
               NestedTerminalError({}, CircuitOpenError("neo4j_database"))},
   start_by |-> 0, horizon |-> MaxTime, drain |-> FALSE]

InitNested ==
  /\ now = 0
  /\ circuit_breakers = << >>
  /\ global_metrics = NewRetryMetrics(0)
  /\ tasks = [t \in 1..NumBatch |-> IdleTask]
  /\ workload = NestedWorkload
  /\ history = NoHistory
  /\ evaluation = NoEvaluation

SpecNested == InitNested /\ [][Next]_vars

\* ------------------------------------------------------ status queries
\* retry_integration's policies for embedding and database operations
\* (multipliers 1.8 and 2.0).
EMBEDDING_RETRY_CONFIG ==
  NewRetryConfig(5, 1000, 30000, <<9, 5>>, TRUE, 30, None, None)

DATABASE_RETRY_CONFIG ==
  NewRetryConfig(3, 500, 10000, <<2, 1>>, TRUE, 20, None, None)

\* sorted(times)[idx], idx counted from 0.
SortedAt(times, idx) ==
  CHOOSE x \in {times[i] : i \in DOMAIN times} :
    /\ Cardinality({i \in DOMAIN times : times[i] < x}) <= idx
    /\ idx < Cardinality({i \in DOMAIN times : times[i] <= x})

RECURSIVE SumOf(_)
SumOf(times) ==
  IF times = << >> THEN 0 ELSE Head(times) + SumOf(Tail(times))

\* RetryMetrics.get_summary at time t; a quotient is the pair of its
\* numerator and denominator.
get_summary(m, t) ==
  IF m.response_times = << >>
    THEN [status |-> "no_data"]
    ELSE LET n == Len(m.response_times)
             p95_idx == (n * 95) \div 100
             p99_idx == (n * 99) \div 100
         IN [total_calls |-> m.total_calls,
             success_rate |-> IF m.total_calls > 0
                                THEN <<m.success_count, m.total_calls>>
                                ELSE <<0, 1>>,
             avg_retries |-> IF m.total_calls > 0
                               THEN <<m.total_retries, m.total_calls>>
                               ELSE <<0, 1>>,
             avg_response_time |-> <<SumOf(m.response_times), n>>,
             p95_response_time |-> IF p95_idx < n
                                     THEN SortedAt(m.response_times, p95_idx)
                                     ELSE 0,
             p99_response_time |-> IF p99_idx < n
                                     THEN SortedAt(m.response_times, p99_idx)
                                     ELSE 0,
             category_stats |-> m.category_stats,
             uptime |-> t - m.last_reset]

\* The state and counters of every breaker of the registry.
BreakerStatus(reg) ==
  [n \in DOMAIN reg |->
     [state |-> reg[n].state, failure_count |-> reg[n].failure_count,
      success_count |-> reg[n].success_count,
      last_failure_time |-> reg[n].last_failure_time]]

\* The fields of a policy that get_retry_status reports.
ConfigStatus(config) ==
  [max_retries |-> config.max_retries, base_delay |-> config.base_delay,
   max_delay |-> config.max_delay,
   backoff_multiplier |-> <<config.mult_num, config.mult_den>>]

\* The attributes of a CircuitBreaker object, and hasattr on it.
CircuitBreakerAttributes ==
  {"name", "config", "state", "failure_count", "last_failure_time",
   "success_count", "_lock"}

hasattr(attributes, name) == name \in attributes

\* get_global_metrics()
get_global_metrics ==
  /\ evaluation' = [fn |-> "get_global_metrics",
                    result |-> get_summary(global_metrics, now)]
  /\ UNCHANGED <<now, circuit_breakers, global_metrics, tasks, workload,
                 history>>

\* get_circuit_breaker_status()
get_circuit_breaker_status ==
  /\ evaluation' = [fn |-> "get_circuit_breaker_status",
                    result |-> BreakerStatus(circuit_breakers)]
  /\ UNCHANGED <<now, circuit_breakers, global_metrics, tasks, workload,
                 history>>

\* get_retry_status(): the condition of its "circuit_breakers" entry asks
\* the registry for "lm_studio_embedder" with get_or_create_circuit_breaker.
get_retry_status ==
  LET reg == get_or_create_circuit_breaker(circuit_breakers,
                                           "lm_studio_embedder",
                                           CircuitBreakerConfig)
  IN /\ circuit_breakers' = reg
     /\ evaluation' =
          [fn |-> "get_retry_status",
           result |->
             [enhanced_retry_enabled |-> TRUE,
              global_metrics |-> get_summary(global_metrics, now),
              circuit_breakers |->
                IF hasattr(CircuitBreakerAttributes,
                           "_CircuitBreaker__class__")
                  THEN BreakerStatus(reg)
                  ELSE << >>,
              configurations |->
                [embedding |-> ConfigStatus(EMBEDDING_RETRY_CONFIG),
                 database |-> ConfigStatus(DATABASE_RETRY_CONFIG)]]]
     /\ UNCHANGED <<now, global_metrics, tasks, workload, history>>

\* A service queried for its status while it serves an embedding request,
\* from the module as imported.
InitStatus ==
  /\ now = 0
  /\ circuit_breakers = << >>
  /\ global_metrics = NewRetryMetrics(0)
  /\ tasks = [t \in 1..NumBatch |-> IdleTask]
  /\ workload = EmbedderWorkload
  /\ history = NoHistory
  /\ evaluation = NoEvaluation

NextStatus ==
  \/ Next
  \/ get_global_metrics
  \/ get_circuit_breaker_status
  \/ get_retry_status

SpecStatus == InitStatus /\ [][NextStatus]_vars

\* Embedding requests whose callers may cancel them.
InitCancel ==
  /\ now = 0
  /\ circuit_breakers =
       get_or_create_circuit_breaker(<< >>, "lm_studio_embedder",
                                     lm_studio_cb_config)
  /\ global_metrics = NewRetryMetrics(0)
  /\ tasks = [t \in 1..NumTasks |-> IdleTask]
  /\ workload = EmbedderWorkload
  /\ history = NoHistory
  /\ evaluation = NoEvaluation

NextCancel ==
  \/ Next
  \/ \E t \in Tasks : Cancel(t)

SpecCancel == InitCancel /\ [][NextCancel]_vars

\* ------------------------------------------------- steps of one call
\* Task t's retry_with_backoff call starts in this step.
Starts(t) == tasks[t].pc = "idle" /\ tasks'[t].pc # "idle"

\* Task t's call enters func in this step.
EntersFunc(t) ==
  /\ tasks'[t].pc = "running"
  /\ \/ tasks[t].pc # "running"
     \/ tasks'[t].invocations # tasks[t].invocations

\* Task t's operation returns a value in this step.
Succeeds(t) == tasks[t].pc = "running" /\ tasks'[t].pc = "returned"

\* Task t's operation raises in this step.
Fails(t) ==
  /\ tasks[t].pc = "running"
  /\ tasks'[t] # tasks[t]
  /\ tasks'[t].pc \notin {"returned", "cancelled"}

\* Task t's call ends with the terminal error in this step.
GivesUp(t) == tasks[t].pc # "raised" /\ tasks'[t].pc = "raised"

\* The last failure of the call was a rejection by its breaker.
Rejected(tk) ==
  tk.cb_name # "None" /\ tk.last_error = CircuitOpenError(tk.cb_name)

\* Task t's call goes through its breaker's admission in this step: it
\* starts, or its backoff sleep returns with attempts left in the range.
Arrives(t) ==
  /\ tasks'[t].cb_name # "None"
  /\ \/ Starts(t)
     \/ /\ tasks[t].pc = "sleeping"
        /\ tasks'[t] # tasks[t]
        /\ tasks[t].attempt < RetryConfig.max_retries

\* The step leaves breaker n as it was and task t with its rejection.
IsRejected(t, n) ==
  /\ circuit_breakers'[n] = circuit_breakers[n]
  /\ ~EntersFunc(t)
  /\ Rejected(tasks'[t])

\* The step makes breaker n HALF_OPEN with no successful probe yet and
\* lets task t's call through to the operation.
IsAdmittedAsProbe(t, n) ==
  /\ circuit_breakers'[n] =
       [circuit_breakers[n] EXCEPT !.state = "half_open", !.success_count = 0]
  /\ EntersFunc(t)

\* ---------------------------------------------------------------- claims

\* C1 (as claimed): a call the breaker rejects ends at once with the
\* terminal error: whenever the last failure of a call is a rejection, the
\* call has raised; it neither sleeps nor goes on to another attempt.
C1_RejectionIsTerminal ==
  \A t \in Tasks : Rejected(tasks[t]) => tasks[t].pc = "raised"

\* C2 (as claimed): a call without a breaker whose operation failed every
\* time with one category c has, when it raises, invoked the operation
\* exactly budget(c) + 1 times.
C2_BudgetPlusOneInvocations ==
  \A t \in Tasks :
    (/\ tasks[t].pc = "raised"
     /\ tasks[t].cb_name = "None"
     /\ tasks[t].uniform)
    => tasks[t].invocations
         = max_retries_for_category(RetryConfig, tasks[t].category) + 1

\* The categories the policy gives no retry: auth and client_error.
ZeroBudget == {c \in ErrorCategory : RetryConfig.category_retries[c] = 0}

\* C3: a failure of a category whose budget is zero ends the call with the
\* terminal error at once (no sleep, no further invocation follows it); when
\* it is the only kind of failure the call has seen, the operation was
\* invoked exactly once and no backoff sleep occurred.
C3_ZeroBudgetFailsFast ==
  \A t \in Tasks :
    (/\ tasks[t].last_error # NoError
     /\ tasks[t].category \in ZeroBudget)
    => /\ tasks[t].pc = "raised"
       /\ tasks[t].uniform => tasks[t].invocations = 1 /\ tasks[t].sleeps = 0

\* C3 witness: one call has raised on its first "401 Unauthorized" and
\* another on its first "400 bad request", each after a single invocation.
C3_Witness ==
  \E t, u \in Tasks :
    /\ tasks[t].pc = "raised" /\ tasks[t].category = "auth"
    /\ tasks[t].invocations = 1 /\ tasks[t].sleeps = 0
    /\ tasks[u].pc = "raised" /\ tasks[u].category = "client_error"
    /\ tasks[u].invocations = 1 /\ tasks[u].sleeps = 0

\* C9: when the operation succeeds at attempt index k the call returns the
\* operation's value, the metrics gain exactly one successful call with k
\* retries (in the totals and under the call's category), and the call never
\* invokes the operation again.
C9_SuccessReturnsAndRecords ==
  [][\A t \in Tasks :
       /\ Succeeds(t) =>
            LET k == tasks[t].attempt
                c == tasks[t].category
                old == IF c \in DOMAIN global_metrics.category_stats
                         THEN global_metrics.category_stats[c]
                         ELSE [calls |-> 0, failures |-> 0, retries |-> 0]
            IN /\ tasks'[t].result \in OpValues
               /\ global_metrics'.total_calls = global_metrics.total_calls + 1
               /\ global_metrics'.success_count
                    = global_metrics.success_count + 1
               /\ global_metrics'.failure_count = global_metrics.failure_count
               /\ global_metrics'.total_retries
                    = global_metrics.total_retries + k
               /\ global_metrics'.category_stats[c]
                    = [calls |-> old.calls + 1, failures |-> old.failures,
                       retries |-> old.retries + k]
       /\ tasks[t].pc = "returned" => tasks'[t] = tasks[t]
    ]_vars

\* C9 witness: a call has returned the operation's value at attempt index 2,
\* after two failed invocations, and is the only call recorded.
C9_Witness ==
  \E t \in Tasks :
    /\ tasks[t].pc = "returned" /\ tasks[t].result \in OpValues
    /\ tasks[t].attempt = 2 /\ tasks[t].invocations = 3
    /\ global_metrics.total_calls = 1 /\ global_metrics.success_count = 1
    /\ global_metrics.total_retries = 2

\* C10 (as claimed): when a call ends with the terminal error, the retries
\* it adds to the metrics are the retries it performed, the invocations of
\* the operation minus one.
C10_FailureRecordsRetriesPerformed ==
  [][\A t \in Tasks :
       (GivesUp(t) /\ tasks'[t].invocations >= 1) =>
          global_metrics'.total_retries
            = global_metrics.total_retries + (tasks'[t].invocations - 1)
    ]_vars

\* C4: the step in which the failures reported to a breaker in a row reach
\* failure_threshold leaves it OPEN; and while a breaker is OPEN and less
\* than its timeout has passed since last_failure_time, no call enters the
\* operation through it and every call arriving at it is rejected, leaving
\* the breaker as it was.
C4_OpensAtThresholdAndRejects ==
  [][\A n \in DOMAIN circuit_breakers :
       LET cb == circuit_breakers[n]
       IN /\ (/\ history'[n].streak > history[n].streak
              /\ history'[n].streak >= cb.config.failure_threshold)
             => circuit_breakers'[n].state = "open"
          /\ (/\ cb.state = "open"
              /\ now - cb.last_failure_time < cb.config.timeout)
             => \A t \in Tasks :
                  tasks'[t].cb_name = n =>
                    /\ ~EntersFunc(t)
                    /\ Arrives(t) => IsRejected(t, n)
    ]_vars

\* C4 witness: a breaker that was CLOSED with failure_count 0 is OPEN after
\* exactly failure_threshold failures in a row, and a call that arrived
\* before the timeout has been rejected.
C4_Witness ==
  \E n \in DOMAIN circuit_breakers : \E t \in Tasks :
    LET cb == circuit_breakers[n]
    IN /\ cb.state = "open"
       /\ cb.failure_count = cb.config.failure_threshold
       /\ history[n].streak = cb.config.failure_threshold
       /\ now - cb.last_failure_time < cb.config.timeout
       /\ tasks[t].cb_name = n /\ Rejected(tasks[t])
       /\ tasks[t].pc # "running"

\* C5 (as claimed): a call arriving at an OPEN breaker is rejected, breaker
\* unchanged and operation not invoked, unless the time since
\* last_failure_time exceeds the timeout; then the breaker becomes HALF_OPEN
\* with success_count 0 and the call is let through.
C5_AdmitsOnceTimeoutExceeded ==
  [][\A n \in DOMAIN circuit_breakers : \A t \in Tasks :
       LET cb == circuit_breakers[n]
       IN (Arrives(t) /\ tasks'[t].cb_name = n /\ cb.state = "open") =>
            IF now - cb.last_failure_time > cb.config.timeout
              THEN IsAdmittedAsProbe(t, n)
              ELSE IsRejected(t, n)
    ]_vars

\* C5 (amended): a call arriving at an OPEN breaker is rejected, breaker
\* unchanged and operation not invoked, unless the time since
\* last_failure_time is at least the timeout; then the breaker becomes
\* HALF_OPEN with success_count 0 and the call is let through.
C5_AdmitsOnceTimeoutReached ==
  [][\A n \in DOMAIN circuit_breakers : \A t \in Tasks :
       LET cb == circuit_breakers[n]
       IN (Arrives(t) /\ tasks'[t].cb_name = n /\ cb.state = "open") =>
            IF now - cb.last_failure_time >= cb.config.timeout
              THEN IsAdmittedAsProbe(t, n)
              ELSE IsRejected(t, n)
    ]_vars

\* C5 witness: a call that was rejected while the breaker was OPEN has been
\* let through exactly timeout seconds after last_failure_time, as the first
\* probe of the HALF_OPEN breaker, whose success_count is 0.
C5_Witness ==
  \E n \in DOMAIN circuit_breakers : \E t \in Tasks :
    LET cb == circuit_breakers[n]
    IN /\ cb.state = "half_open" /\ cb.success_count = 0
       /\ history[n].probes = 1
       /\ now - cb.last_failure_time = cb.config.timeout
       /\ tasks[t].cb_name = n /\ tasks[t].pc = "running"
       /\ Rejected(tasks[t])

\* C6: a success reported to a HALF_OPEN breaker raises success_count by
\* one; the breaker becomes CLOSED in that step exactly when the counter
\* has reached half_open_max_calls, with failure_count reset to 0, and stays
\* HALF_OPEN with failure_count untouched otherwise; no other step closes a
\* HALF_OPEN breaker.
C6_ClosesAtProbeCount ==
  [][\A n \in DOMAIN circuit_breakers :
       LET cb == circuit_breakers[n]
           cb2 == circuit_breakers'[n]
       IN cb.state = "half_open" =>
            /\ \A t \in Tasks :
                 (Succeeds(t) /\ tasks[t].cb_name = n) =>
                   /\ cb2.success_count = cb.success_count + 1
                   /\ cb2.state = "closed"
                        <=> cb2.success_count = cb.config.half_open_max_calls
                   /\ cb2.state = "closed" => cb2.failure_count = 0
                   /\ cb2.state # "closed" =>
                        /\ cb2.state = "half_open"
                        /\ cb2.failure_count = cb.failure_count
            /\ cb2.state = "closed" =>
                 /\ \E t \in Tasks : Succeeds(t) /\ tasks[t].cb_name = n
                 /\ cb2.success_count = cb.config.half_open_max_calls
    ]_vars

\* C6 witness: a breaker that had been opened has been closed by its
\* half_open_max_calls-th successful probe; failure_count is 0.
C6_Witness ==
  \E n \in DOMAIN circuit_breakers :
    LET cb == circuit_breakers[n]
    IN /\ cb.state = "closed" /\ cb.failure_count = 0
       /\ cb.success_count = cb.config.half_open_max_calls
       /\ cb.last_failure_time > 0 /\ history[n].streak = 0

\* C7: a failure reported to a HALF_OPEN breaker leaves it OPEN with
\* last_failure_time the time of the failure, whatever success_count is.
C7_ProbeFailureReopens ==
  [][\A n \in DOMAIN circuit_breakers : \A t \in Tasks :
       (/\ Fails(t) /\ tasks[t].cb_name = n
        /\ circuit_breakers[n].state = "half_open")
       => /\ circuit_breakers'[n].state = "open"
          /\ circuit_breakers'[n].last_failure_time = now
    ]_vars

\* C7 witness: a HALF_OPEN breaker with one successful probe counted has
\* been reopened by a failure reported just now.
C7_Witness ==
  \E n \in DOMAIN circuit_breakers :
    LET cb == circuit_breakers[n]
    IN /\ cb.state = "open" /\ cb.success_count = 1
       /\ cb.last_failure_time = now
       /\ history[n].streak = 1

\* C8 (as claimed): while a breaker is HALF_OPEN it has admitted at most
\* half_open_max_calls calls since it left OPEN.
C8_ProbeBudget ==
  \A n \in DOMAIN circuit_breakers :
    circuit_breakers[n].state = "half_open" =>
      history[n].probes <= circuit_breakers[n].config.half_open_max_calls

\* The calls that have ended with a value, and with the terminal error.
Returned == {t \in Tasks : tasks[t].pc = "returned"}
Raised == {t \in Tasks : tasks[t].pc = "raised"}

\* C11: whatever the interleaving of the calls in flight, the metrics count
\* every ended call exactly once: total_calls is the number of calls that
\* have returned or raised since the metrics were created, success_count
\* the number that returned, failure_count the number that raised.
C11_MetricsCountEveryCall ==
  /\ global_metrics.total_calls = Cardinality(Returned) + Cardinality(Raised)
  /\ global_metrics.success_count = Cardinality(Returned)
  /\ global_metrics.failure_count = Cardinality(Raised)

\* C11 witness: two calls started at the same instant and both went through
\* a backoff sleep; one has returned, the other has raised, and the metrics
\* show two calls, one success and one failure.
C11_Witness ==
  \E t, u \in Tasks :
    /\ tasks[t].pc = "returned" /\ tasks[u].pc = "raised"
    /\ tasks[t].start_time = tasks[u].start_time
    /\ tasks[t].sleeps >= 1 /\ tasks[u].sleeps >= 1
    /\ global_metrics.total_calls = 2
    /\ global_metrics.success_count = 1 /\ global_metrics.failure_count = 1

\* C12 (as claimed): the terminal error of a call whose operation has
\* failed carries retryable = false, the category of the last failure the
\* operation raised, and that failure as original_error.
C12_TerminalErrorWrapsLastFailure ==
  \A t \in Tasks :
    (tasks[t].pc = "raised" /\ tasks[t].op_error # NoError) =>
      /\ tasks[t].raised.retryable = FALSE
      /\ tasks[t].raised.category = categorize_error(tasks[t].op_error)
      /\ tasks[t].raised.original_error = tasks[t].op_error

\* C13: a call cancelled while suspended in a backoff sleep or inside the
\* operation ends with the cancellation: the retry loop never catches the
\* cancellation as a failure, and a cancelled call takes no further step (no
\* invocation, no sleep); the cancellation is recorded neither in the
\* metrics nor as an outcome of the breaker.
C13_CancellationEndsTheCall ==
  [][\A t \in Tasks :
       /\ tasks'[t].last_error # CancelledError
       /\ tasks[t].pc = "cancelled" => tasks'[t] = tasks[t]
       /\ (tasks[t].pc # "cancelled" /\ tasks'[t].pc = "cancelled") =>
            /\ tasks[t].pc \in {"running", "sleeping"}
            /\ tasks'[t].raised = CancelledError
            /\ tasks'[t].invocations = tasks[t].invocations
            /\ tasks'[t].sleeps = tasks[t].sleeps
            /\ global_metrics' = global_metrics
            /\ circuit_breakers' = circuit_breakers
    ]_vars

\* C13 witness: one call was cancelled inside its second invocation of the
\* operation, another in the backoff sleep after its first failure.
C13_Witness ==
  \E t, u \in Tasks :
    /\ tasks[t].pc = "cancelled"
    /\ tasks[t].invocations = 2 /\ tasks[t].sleeps = 1
    /\ tasks[u].pc = "cancelled"
    /\ tasks[u].invocations = 1 /\ tasks[u].sleeps = 1

\* C14: a call whose invocations and sleeps each end invokes the operation
\* at most max_retries + 1 times and ends in exactly one of two ways: it has
\* returned the value of a successful invocation and raised nothing, or it
\* has raised the terminal error and returned nothing; and every call that
\* has started does end.
C14_CallTerminates ==
  /\ [](\A t \in 1..NumBatch :
         /\ tasks[t].invocations <= RetryConfig.max_retries + 1
         /\ tasks[t].pc = "returned" =>
              tasks[t].result \in OpValues /\ tasks[t].raised = NoError
         /\ tasks[t].pc = "raised" =>
              /\ tasks[t].result = "None"
              /\ tasks[t].raised = TerminalError(tasks[t])
         /\ tasks[t].pc \notin {"returned", "raised"} =>
              tasks[t].result = "None" /\ tasks[t].raised = NoError)
  /\ \A t \in 1..NumBatch :
       (tasks[t].pc # "idle") ~> (tasks[t].pc \in {"returned", "raised"})

\* C14 witness: a call has raised the terminal error after max_retries + 1
\* failed invocations, each followed by a backoff sleep that returned.
C14_Witness ==
  \E t \in Tasks :
    /\ tasks[t].pc = "raised" /\ tasks[t].result = "None"
    /\ tasks[t].invocations = RetryConfig.max_retries + 1
    /\ tasks[t].sleeps = RetryConfig.max_retries + 1
    /\ tasks[t].op_error = tasks[t].last_error

\* The places in the order of the tests of the groups a message matches.
Matches(e) ==
  {i \in DOMAIN CategoryOrder : e.terms \cap Keywords(CategoryOrder[i]) # {}}

\* C15: categorize_error returns the category of the first group, in the
\* order network, timeout, rate_limit, auth, server_error, client_error,
\* embedding, database, that has a keyword in the message; the type name
\* decides (network for an HTTP client type) only when no group matches,
\* and the result is unknown when nothing matches.  A message with both a
\* network term and a timeout term is network.
C15_FirstMatchingGroupWins ==
  evaluation.fn = "categorize_error" /\ evaluation.result # "None" =>
    LET e == evaluation.error
        M == Matches(e)
    IN /\ M # {} =>
            \E i \in M : /\ \A j \in M : i <= j
                          /\ evaluation.result = CategoryOrder[i]
       /\ (M = {} /\ e.type \in {"httpx", "aiohttp"}) =>
            evaluation.result = "network"
       /\ (M = {} /\ e.type \notin {"httpx", "aiohttp"}) =>
            evaluation.result = "unknown"
       /\ ({1, 2} \subseteq M) => evaluation.result = "network"

\* C15 witness: a message with the network term "connection" and the
\* timeout term "timed out" has been classified network.
C15_Witness ==
  /\ evaluation.fn = "categorize_error"
  /\ evaluation.error.terms = {"connection", "timed out"}
  /\ evaluation.result = "network"

\* A delay has been computed, and the step computes the next attempt's.
Computed == evaluation.fn = "calculate_delay" /\ evaluation.attempt >= 0

\* C16 (as claimed): for a fixed policy and category the delay computed for
\* attempt a + 1 is not smaller than the delay computed for attempt a, as
\* long as the delay has not reached max_delay.
C16_DelayNeverDecreases ==
  [][(Computed /\ evaluation.result < evaluation.config.max_delay) =>
       evaluation'.result >= evaluation.result]_vars

\* C16 (amended): for a fixed policy with jitter disabled and a multiplier
\* of at least 1, and a fixed category, the delay computed for attempt
\* a + 1 is not smaller than the delay computed for attempt a, and a delay
\* that has reached max_delay stays there.
C16_DelayNeverDecreasesWithoutJitter ==
  [][(/\ Computed
      /\ ~evaluation.config.jitter
      /\ evaluation.config.mult_num >= evaluation.config.mult_den) =>
       /\ evaluation'.result >= evaluation.result
       /\ evaluation.result = evaluation.config.max_delay =>
            evaluation'.result = evaluation.config.max_delay]_vars

\* C16 witness: with jitter disabled, multiplier 2 and max_delay 5 s the
\* network delay has grown from 1 s at attempt 0 to the cap at attempt 3.
C16_Witness ==
  /\ Computed /\ ~evaluation.config.jitter
  /\ evaluation.config.mult_num = 2 /\ evaluation.config.mult_den = 1
  /\ evaluation.config.max_delay = 5000
  /\ evaluation.category = "network" /\ evaluation.attempt = 3
  /\ evaluation.result = 5000

\* C17 (as claimed): every delay calculate_delay returns lies between 0 and
\* the policy's max_delay, jitter or not.
C17_DelayWithinMaxDelay ==
  Computed =>
    /\ 0 <= evaluation.result
    /\ evaluation.result <= evaluation.config.max_delay

\* The base delay a policy has for a category: its category_delays entry,
\* or base_delay where the map has none.
BaseDelayOf(config, category) ==
  IF category \in DOMAIN config.category_delays
    THEN config.category_delays[category]
    ELSE config.base_delay

\* A rate_limit delay has been computed without jitter under a policy whose
\* rate_limit base delay is larger than its network base delay.
RateLimitComputed ==
  /\ Computed
  /\ ~evaluation.config.jitter
  /\ evaluation.category = "rate_limit"
  /\ BaseDelayOf(evaluation.config, "rate_limit")
       > BaseDelayOf(evaluation.config, "network")

\* The delay of the network category for the same policy, attempt index and
\* random draw.
NetworkDelay ==
  calculate_delay(evaluation.attempt, evaluation.config, "network",
                  evaluation.r)

\* C18 (as claimed): with jitter disabled and a larger base delay for
\* rate_limit than for network, the rate_limit delay is strictly greater
\* than the network delay at every attempt index.
C18_RateLimitDelayExceedsNetwork ==
  RateLimitComputed => evaluation.result > NetworkDelay

\* C18 (amended): with jitter disabled and a larger base delay for
\* rate_limit than for network, the rate_limit delay is never smaller than
\* the network delay at the same attempt index, and strictly greater as long
\* as the network delay is below max_delay; once the network delay has
\* reached max_delay both are max_delay.
C18_RateLimitDelayExceedsNetworkBelowCap ==
  RateLimitComputed =>
    /\ evaluation.result >= NetworkDelay
    /\ NetworkDelay < evaluation.config.max_delay =>
         evaluation.result > NetworkDelay
    /\ NetworkDelay >= evaluation.config.max_delay =>
         /\ evaluation.result = evaluation.config.max_delay
         /\ NetworkDelay = evaluation.config.max_delay

\* C18 witness: under the default delays, multiplier 2 and max_delay 60 s,
\* the rate_limit delay at attempt 2 is 20 s, the network delay 4 s.
C18_Witness ==
  /\ RateLimitComputed
  /\ evaluation.config.max_delay = 60000
  /\ evaluation.attempt = 2
  /\ evaluation.result = 20000 /\ NetworkDelay = 4000

\* C19 (as claimed): for a policy built by load_config_from_env, with jitter
\* disabled, the delay at attempt 0 is min(base_delay, max_delay) whatever
\* the category.
C19_BaseDelayIsTheBase ==
  (/\ Computed
   /\ evaluation.config \in PoliciesFromEnv
   /\ ~evaluation.config.jitter
   /\ evaluation.attempt = 0)
  => evaluation.result
       = Min(evaluation.config.base_delay, evaluation.config.max_delay)

\* C20: the registry holds one breaker per name.  A name that is not in it
\* enters it with a fresh breaker, of the policy passed by the start-up or
\* of the default policy when a call asks first; a later
\* get_or_create_circuit_breaker for the name, whatever policy it passes,
\* leaves the breaker as it is (the start-up changes nothing, a call changes
\* nothing but what its admission does); the policy of a breaker never
\* changes and no name ever leaves the registry.
C20_RegistryKeepsBreakers ==
  [][/\ DOMAIN circuit_breakers \subseteq DOMAIN circuit_breakers'
     /\ \A n \in DOMAIN circuit_breakers :
          LET cb == circuit_breakers[n]
              cb2 == circuit_breakers'[n]
          IN /\ cb2.config = cb.config
             /\ tasks' = tasks => cb2 = cb
             /\ \A t \in Tasks :
                  (Starts(t) /\ tasks'[t].cb_name = n) =>
                    \/ cb2 = cb
                    \/ /\ cb.state = "open"
                       /\ cb2 = [cb EXCEPT !.state = "half_open",
                                            !.success_count = 0]
     /\ \A n \in DOMAIN circuit_breakers' \ DOMAIN circuit_breakers :
          LET cb2 == circuit_breakers'[n]
          IN IF tasks' = tasks
               THEN cb2 = NewCircuitBreaker(lm_studio_cb_config)
               ELSE /\ cb2 = NewCircuitBreaker(CircuitBreakerConfig)
                    /\ \E t \in Tasks : Starts(t) /\ tasks'[t].cb_name = n
    ]_vars

\* C20 witness: the breaker a first call created with the default policy
\* had counted a failure when a second call asked for the same name; it is
\* still there with its policy and its count.
C20_Witness ==
  \E n \in DOMAIN circuit_breakers : \E t, u \in Tasks :
    LET cb == circuit_breakers[n]
    IN /\ cb.config = CircuitBreakerConfig
       /\ cb.failure_count >= 1
       /\ tasks[t].cb_name = n /\ tasks[u].cb_name = n
       /\ tasks[t].start_time <= cb.last_failure_time
       /\ cb.last_failure_time < tasks[u].start_time
       /\ tasks[u].pc = "running" /\ tasks[u].invocations = 1

\* The response times the metrics under evaluation retain.
Window == evaluation.metrics.response_times

\* C21: the retained response times are never more than the cap (1000);
\* they are the most recent samples in the order they were recorded; and
\* the record that would make them 1001 leaves the most recent 500.
C21_ResponseWindowBounded ==
  [][evaluation.fn = "record_call" =>
       LET times == evaluation'.metrics.response_times
           k == evaluation'.metrics.total_calls
       IN /\ Len(times) <= 1000
          /\ Len(times) >= 1
          /\ \A i \in 1..Len(times) : times[i] = k - Len(times) + i
          /\ IF Len(Window) = 1000
               THEN Len(times) = 500
               ELSE Len(times) = Len(Window) + 1
    ]_vars

\* C21 witness: the 1001st record has just trimmed the window to the 500
\* most recent samples, 502 to 1001.
C21_Witness ==
  /\ evaluation.fn = "record_call"
  /\ evaluation.metrics.total_calls = 1001
  /\ Len(Window) = 500
  /\ Window[1] = 502 /\ Window[500] = 1001

\* C22: failure_count is never negative; a success reported while the
\* breaker is CLOSED leaves failure_count at max(0, failure_count - 1) and
\* the breaker CLOSED.
C22_ClosedSuccessDecays ==
  [][\A n \in DOMAIN circuit_breakers :
       /\ circuit_breakers[n].failure_count >= 0
       /\ circuit_breakers'[n].failure_count >= 0
       /\ \A t \in Tasks :
            (/\ Succeeds(t)
             /\ tasks[t].cb_name = n
             /\ circuit_breakers[n].state = "closed")
            => /\ circuit_breakers'[n].state = "closed"
               /\ circuit_breakers'[n].failure_count
                    = (IF circuit_breakers[n].failure_count = 0
                         THEN 0
                         ELSE circuit_breakers[n].failure_count - 1)
    ]_vars

\* C22 witness: one failure and then one success were reported to the
\* CLOSED breaker (a success before the failure would leave the count at
\* 1), and a success was reported when the count was already 0.
C22_Witness ==
  /\ tasks[1].pc = "sleeping" /\ tasks[1].invocations = 1
  /\ tasks[2].pc = "returned" /\ tasks[2].invocations = 1
  /\ tasks[3].pc = "returned" /\ tasks[3].invocations = 1
  /\ circuit_breakers["lm_studio_embedder"].state = "closed"
  /\ circuit_breakers["lm_studio_embedder"].failure_count = 0

\* The changes of state a breaker makes.
Transitions ==
  {<<"closed", "open">>, <<"open", "half_open">>,
   <<"half_open", "closed">>, <<"half_open", "open">>}

\* C23: a breaker's state changes only CLOSED to OPEN, OPEN to HALF_OPEN,
\* HALF_OPEN to CLOSED and HALF_OPEN to OPEN; never OPEN to CLOSED directly
\* and never CLOSED to HALF_OPEN.
C23_OnlyFourTransitions ==
  [][\A n \in DOMAIN circuit_breakers :
       \/ circuit_breakers'[n].state = circuit_breakers[n].state
       \/ <<circuit_breakers[n].state, circuit_breakers'[n].state>>
            \in Transitions
    ]_vars

\* C23 witness: the breaker opened, became HALF_OPEN, was closed by its
\* successful probes and has counted a failure since.
C23_Witness ==
  LET cb == circuit_breakers["lm_studio_embedder"]
  IN /\ cb.state = "closed"
     /\ cb.success_count = cb.config.half_open_max_calls
     /\ cb.failure_count = 1
     /\ history["lm_studio_embedder"].streak = 1

\* C24 (as claimed): every backoff sleep is followed by another attempt: a
\* call that has ended slept at most once less than it invoked the
\* operation, and a call whose sleep returns enters the operation again
\* instead of raising.
C24_SleepIsFollowedByAttempt ==
  [][\A t \in Tasks :
       /\ tasks'[t].pc \in {"returned", "raised"}
            => tasks'[t].sleeps <= tasks'[t].invocations - 1
       /\ (tasks[t].pc = "sleeping" /\ tasks'[t].pc # "sleeping")
            => EntersFunc(t)
    ]_vars

\* The failures the calls in S have reported to breaker n: the invocations
\* of the operation that have ended, none of them with a success.
RECURSIVE FailuresReported(_, _)
FailuresReported(S, n) ==
  IF S = {} THEN 0
  ELSE LET t == CHOOSE u \in S : TRUE
           mine == IF tasks[t].cb_name # n THEN 0
                   ELSE IF tasks[t].pc = "running"
                     THEN tasks[t].invocations - 1
                   ELSE tasks[t].invocations
       IN mine + FailuresReported(S \ {t}, n)

\* C25: the breaker's updates are atomic: no failure reported to a CLOSED
\* breaker is lost, however the calls interleave.  While the breaker is
\* CLOSED and no call has succeeded, failure_count is the number of failures
\* reported, and each report of a failure raises it by exactly one.
C25_ConcurrentFailuresAllCounted ==
  [][\A n \in DOMAIN circuit_breakers :
       /\ (/\ circuit_breakers[n].state = "closed"
           /\ \A t \in Tasks : tasks[t].pc # "returned")
          => circuit_breakers[n].failure_count = FailuresReported(Tasks, n)
       /\ \A t \in Tasks :
            (/\ tasks[t].pc = "running" /\ tasks[t].cb_name = n
             /\ tasks'[t].pc \notin {"running", "returned"}
             /\ circuit_breakers[n].state = "closed")
            => circuit_breakers'[n].failure_count
                 = circuit_breakers[n].failure_count + 1
    ]_vars

\* C25 witness: two calls running at once have both reported a failure in
\* the same instant to the CLOSED breaker, which counts two, below its
\* threshold.
C25_Witness ==
  LET cb == circuit_breakers["lm_studio_embedder"]
  IN /\ cb.state = "closed"
     /\ cb.failure_count = 2
     /\ cb.failure_count < cb.config.failure_threshold
     /\ cb.last_failure_time = now
     /\ tasks[1].start_time = now /\ tasks[2].start_time = now
     /\ tasks[1].pc = "sleeping" /\ tasks[1].invocations = 1
     /\ tasks[2].pc = "sleeping" /\ tasks[2].invocations = 1
     /\ tasks[3].pc = "running"

\* C26 (as claimed): an error marked retryable = False, the terminal error
\* of a nested call among them, is never retried by the call that catches
\* it: once it is the call's last error the call has raised, without a
\* sleep or another attempt after it.
C26_NonRetryableNeverRetried ==
  \A t \in Tasks :
    ~tasks[t].last_error.retryable => tasks[t].pc = "raised"

\* C27: a CLOSED breaker (failure_threshold at least 1) has counted fewer
\* failures than its threshold, in every reachable state.
C27_ClosedBelowThreshold ==
  \A n \in DOMAIN circuit_breakers :
    LET cb == circuit_breakers[n]
    IN (cb.config.failure_threshold >= 1 /\ cb.state = "closed")
         => cb.failure_count < cb.config.failure_threshold

\* C27 witness: the breaker, closed again by its probes, has since counted
\* one failure less than its threshold and is still CLOSED.
C27_Witness ==
  \E n \in DOMAIN circuit_breakers :
    LET cb == circuit_breakers[n]
    IN /\ cb.state = "closed"
       /\ cb.config.failure_threshold >= 1
       /\ cb.failure_count = cb.config.failure_threshold - 1
       /\ cb.success_count = cb.config.half_open_max_calls
       /\ history[n].streak = cb.failure_count

\* The call tk, in its operation, was admitted by breaker n while it was
\* CLOSED: it is at its first attempt (a rejection would have moved it on)
\* and started before the breaker, CLOSED at time 0, could have left OPEN.
AdmittedWhileClosed(tk, n) ==
  /\ tk.pc = "running" /\ tk.cb_name = n
  /\ tk.attempt = 0
  /\ tk.start_time < circuit_breakers[n].config.timeout

\* C28 (as claimed): only the probes count towards closing: the success of
\* a call admitted while the breaker was CLOSED, reported when the breaker
\* is HALF_OPEN, leaves success_count as it is and the breaker HALF_OPEN.
C28_OnlyProbesCount ==
  [][\A n \in DOMAIN circuit_breakers : \A t \in Tasks :
       (/\ AdmittedWhileClosed(tasks[t], n)
        /\ Succeeds(t)
        /\ circuit_breakers[n].state = "half_open")
       => /\ circuit_breakers'[n].success_count
               = circuit_breakers[n].success_count
          /\ circuit_breakers'[n].state = "half_open"
    ]_vars

\* C29 (as claimed): while the breaker is OPEN, the failure of a call
\* admitted before it opened changes neither last_failure_time nor
\* failure_count.
C29_LateFailureLeavesOpenBreaker ==
  [][\A n \in DOMAIN circuit_breakers : \A t \in Tasks :
       (/\ AdmittedWhileClosed(tasks[t], n)
        /\ Fails(t)
        /\ circuit_breakers[n].state = "open")
       => /\ circuit_breakers'[n].last_failure_time
               = circuit_breakers[n].last_failure_time
          /\ circuit_breakers'[n].failure_count
               = circuit_breakers[n].failure_count
    ]_vars

\* A status query returns in this step.
StatusQueried ==
  /\ evaluation' # evaluation
  /\ evaluation'.fn \in {"get_global_metrics", "get_circuit_breaker_status",
                         "get_retry_status"}

\* C30 (as claimed): the status queries are read-only: get_global_metrics,
\* get_circuit_breaker_status and get_retry_status create no breaker and
\* change no breaker's state or counters and no metrics counter.
C30_StatusQueriesReadOnly ==
  [][StatusQueried =>
       /\ circuit_breakers' = circuit_breakers
       /\ global_metrics' = global_metrics
    ]_vars

====
